---- MODULE Spec2Model ----
(***************************************************************************)
(* Model of bountyhunter (src/main.py): the record-to-ticket rendering     *)
(* (generate_report_title, generate_report_body), the publication ledger   *)
(* (get_issued_report_indexes) and the publisher loop of main.             *)
(*                                                                         *)
(* Text is a sequence of symbols.  Everything the program parses (ticket   *)
(* titles, e-mail addresses, media URLs, field values that are stripped)   *)
(* is modelled one character per symbol.  Literals that the program only   *)
(* appends and never parses (markdown decorations, the download-link       *)
(* template, field names, category names) are one symbol each.  Field and  *)
(* category names are transliterated to ASCII.                             *)
(***************************************************************************)
EXTENDS Integers, Sequences, FiniteSets, TLC

VARIABLES
    reports,                \* main: the records fetched from the sheet
    tracker,                \* the bounty-labelled tickets held by the tracker
    pc,                     \* position of the run / of the function under study
    report_idx,             \* main: loop index; also generate_report_title's argument
    issued_report_indexes,  \* main: the ledger derived at the start of the run
    newly_issued_reports,   \* main
    dismissed_reports,      \* main
    echoed,                 \* the two counts printed at the end of a run
    issues,                 \* main: the listing fetched at the start of the run
    created,                \* history: the index of every ticket created, over all runs
    preexisting,            \* history: number of tickets that existed before the first run
    prev_done,              \* history: the run before the current one completed
    sheet,                  \* the spreadsheet: header row and data rows (never written)
    report,                 \* the record handed to the renderer, as fetched
    report_after,           \* the same record after generate_report_body mutated it
    title,                  \* result of generate_report_title
    body,                   \* result of generate_report_body
    label,                  \* category_label of main
    github_issues,          \* argument of get_issued_report_indexes
    result                  \* result of get_issued_report_indexes

vars == <<reports, tracker, pc, report_idx, issued_report_indexes, newly_issued_reports,
          dismissed_reports, echoed, issues, created, preexisting, prev_done, sheet,
          report, report_after,
          title, body, label, github_issues, result>>

mainVars == <<reports, tracker, issued_report_indexes, newly_issued_reports,
              dismissed_reports, echoed, issues, created, preexisting, prev_done, sheet>>

renderVars == <<report, report_after, title, body, label>>

ledgerVars == <<github_issues, result>>

None == <<"none">>

-----------------------------------------------------------------------------
(* Python str operations on Text *)

StartsWith(s, p) == Len(s) >= Len(p) /\ SubSeq(s, 1, Len(p)) = p

EndsWith(s, p) == Len(s) >= Len(p) /\ SubSeq(s, Len(s) - Len(p) + 1, Len(s)) = p

MatchAt(s, sep, i) == i + Len(sep) - 1 <= Len(s) /\ SubSeq(s, i, i + Len(sep) - 1) = sep

RECURSIVE FindFrom(_, _, _)
\* index of the first occurrence of sep in s at or after i, 0 if there is none
FindFrom(s, sep, i) ==
    IF i + Len(sep) - 1 > Len(s) THEN 0
    ELSE IF MatchAt(s, sep, i) THEN i
    ELSE FindFrom(s, sep, i + 1)

Contains(s, sep) == FindFrom(s, sep, 1) # 0

RECURSIVE SplitFrom(_, _, _)
SplitFrom(s, sep, i) ==
    LET j == FindFrom(s, sep, i)
    IN  IF j = 0
        THEN <<SubSeq(s, i, Len(s))>>
        ELSE <<SubSeq(s, i, j - 1)>> \o SplitFrom(s, sep, j + Len(sep))

\* s.split(sep)
Split(s, sep) == SplitFrom(s, sep, 1)

Whitespace == {" ", "\n"}

RECURSIVE LStrip(_)
LStrip(s) == IF s # <<>> /\ Head(s) \in Whitespace THEN LStrip(Tail(s)) ELSE s

RECURSIVE RStrip(_)
RStrip(s) ==
    IF s # <<>> /\ s[Len(s)] \in Whitespace THEN RStrip(SubSeq(s, 1, Len(s) - 1)) ELSE s

\* s.strip()
Strip(s) == RStrip(LStrip(s))

Digits == {"0", "1", "2", "3", "4", "5", "6", "7", "8", "9"}

DigitChar(d) ==
    CASE d = 0 -> "0" [] d = 1 -> "1" [] d = 2 -> "2" [] d = 3 -> "3" [] d = 4 -> "4"
      [] d = 5 -> "5" [] d = 6 -> "6" [] d = 7 -> "7" [] d = 8 -> "8" [] d = 9 -> "9"

DigitVal(c) == CHOOSE d \in 0..9 : DigitChar(d) = c

RECURSIVE DigitsVal(_)
DigitsVal(s) ==
    IF s = <<>> THEN 0 ELSE DigitsVal(SubSeq(s, 1, Len(s) - 1)) * 10 + DigitVal(s[Len(s)])

\* the digits of s once surrounding whitespace and one sign are removed
Unsigned(s) ==
    LET t == Strip(s)
    IN  IF t # <<>> /\ t[1] \in {"+", "-"} THEN Tail(t) ELSE t

\* int(s) returns (does not raise ValueError)
IntParses(s) ==
    LET u == Unsigned(s)
    IN  u # <<>> /\ \A k \in 1..Len(u) : u[k] \in Digits

\* int(s)
IntOf(s) ==
    LET t == Strip(s)
        v == DigitsVal(Unsigned(s))
    IN  IF t[1] = "-" THEN 0 - v ELSE v

RECURSIVE IntToStr(_)
\* str(n) of a non-negative int, as the f-string of a title renders it
IntToStr(n) == IF n < 10 THEN <<DigitChar(n)>> ELSE IntToStr(n \div 10) \o <<DigitChar(n % 10)>>

-----------------------------------------------------------------------------
(* Records: an OrderedDict is a sequence of key/value pairs *)

Has(r, f) == \E k \in 1..Len(r) : r[k].k = f

Get(r, f) == r[CHOOSE k \in 1..Len(r) : r[k].k = f].v

Put(r, f, val) == [k \in 1..Len(r) |-> IF r[k].k = f THEN [k |-> f, v |-> val] ELSE r[k]]

Keys(r) == [k \in 1..Len(r) |-> r[k].k]

Min(a, b) == IF a < b THEN a ELSE b

\* OrderedDict(zip(header, row)): cells missing at the end of a row are absent keys
Zip(header, row) == [k \in 1..Min(Len(header), Len(row)) |-> [k |-> header[k], v |-> row[k]]]

F_TIMESTAMP == "Klejmo za vreme"
F_EMAIL == "Imejl adres"
F_CATEGORY == "Za kakvo pishesh?"
F_BUG == "Kakav e bagat?"
F_WHERE_BUG == "Kade e?"
F_DEVICE == "Ustrojstvo?"
F_OS == "Operacionna sistema"
F_BROWSER == "Brauzar"
F_REPRO == "Kak mozhe da replikirame sluchaya? (kak se e sluchilo - stapki)"
F_BUG_MEDIA == "Snimki ili videa - kade e, kakvo e i t.n."
F_WHAT == "Kakvo?"
F_WHERE == "Kade?"
F_MEDIA == "Snimki (do 10), ako e prilozhimo"

CAT_BUG == <<"Bag">>
CAT_FEATURE == <<"Nova funkciya / predlozhenie">>
CAT_OTHER == <<"Drugo">>

-----------------------------------------------------------------------------
(* generate_report_title *)

Prefix == <<"B", "o", "u", "n", "t", "y", " ", "#">>

Ellipsis == <<".", ".", ".">>

TitleLimit == 69

\* the field generate_report_title reads the headline from
TitleField(r) == IF Get(r, F_CATEGORY) = CAT_BUG THEN F_BUG ELSE F_WHAT

\* generate_report_title raises KeyError
TitleRaises(r) == IF Has(r, F_CATEGORY) THEN ~Has(r, TitleField(r)) ELSE TRUE

\* off by one: a headline of exactly TitleLimit characters is cut too
Truncate_AtLimit(t) ==
    IF Len(t) >= TitleLimit THEN SubSeq(t, 1, TitleLimit - 1) \o Ellipsis ELSE t

Truncate(t) == IF Len(t) > TitleLimit THEN SubSeq(t, 1, TitleLimit) \o Ellipsis ELSE t

\* the title numbers the records from one
generate_report_title_OneBased(r, idx) ==
    Prefix \o IntToStr(idx + 1) \o <<":", " ">> \o Truncate(Get(r, TitleField(r)))

generate_report_title(r, idx) ==
    Prefix \o IntToStr(idx) \o <<":", " ">> \o Truncate(Get(r, TitleField(r)))

\* main, lines 246-249
category_label(r) == IF Get(r, F_CATEGORY) = CAT_FEATURE THEN "enhancement" ELSE "bug"

-----------------------------------------------------------------------------
(* get_issued_report_indexes *)

Range(s) == {s[k] : k \in 1..Len(s)}

\* the text after the last '#' of the title instead of the first
IndexSegment_LastHash(t) ==
    Split(Split(t, <<"#">>)[Len(Split(t, <<"#">>))], <<":", " ">>)[1]

\* the text handed to int() for one title
IndexSegment(t) == Split(Split(t, <<"#">>)[2], <<":", " ">>)[1]

\* no filter: every title is kept
Kept_All(tickets) == [k \in 1..Len(tickets) |-> tickets[k].title]

RECURSIVE Kept(_)
\* the titles that pass the filter  issue['title'].startswith('Bounty #')
Kept(tickets) ==
    IF tickets = <<>> THEN <<>>
    ELSE (IF StartsWith(Head(tickets).title, Prefix) THEN <<Head(tickets).title>> ELSE <<>>)
         \o Kept(Tail(tickets))

\* a title whose index does not parse is passed over instead of raising
get_issued_report_indexes_Lenient(tickets) ==
    LET segs == [k \in 1..Len(Kept(tickets)) |-> IndexSegment(Kept(tickets)[k])]
        Ints(S) == {IntOf(x) : x \in {y \in S : IntParses(y)}}
        Sorted(S) == CHOOSE q \in [1..Cardinality(S) -> S] : \A i, j \in 1..Cardinality(S) :
                        i < j => q[i] < q[j]
    IN  [raised |-> FALSE, value |-> Sorted(Ints(Range(segs)))]

\* the comprehension: raised when int() raises ValueError on some kept title
get_issued_report_indexes(tickets) ==
    LET segs == [k \in 1..Len(Kept(tickets)) |-> IndexSegment(Kept(tickets)[k])]
    IN  IF \E k \in 1..Len(segs) : ~IntParses(segs[k])
        THEN [raised |-> TRUE, value |-> <<>>]
        ELSE [raised |-> FALSE, value |-> [k \in 1..Len(segs) |-> IntOf(segs[k])]]

-----------------------------------------------------------------------------
(* get_name_from_email *)

LowerLetters == <<"a", "b", "c", "d", "e", "f", "g", "h", "i", "j", "k", "l", "m",
                  "n", "o", "p", "q", "r", "s", "t", "u", "v", "w", "x", "y", "z">>

UpperLetters == <<"A", "B", "C", "D", "E", "F", "G", "H", "I", "J", "K", "L", "M",
                  "N", "O", "P", "Q", "R", "S", "T", "U", "V", "W", "X", "Y", "Z">>

IsLetter(c) == \E k \in 1..Len(LowerLetters) : c = LowerLetters[k] \/ c = UpperLetters[k]

LetterNo(c) == CHOOSE k \in 1..Len(LowerLetters) : c = LowerLetters[k] \/ c = UpperLetters[k]

ToLower(c) == IF IsLetter(c) THEN LowerLetters[LetterNo(c)] ELSE c

ToUpper(c) == IF IsLetter(c) THEN UpperLetters[LetterNo(c)] ELSE c

\* s.lower()
Lower(s) == [k \in 1..Len(s) |-> ToLower(s[k])]

\* s.title(): a letter is upper-cased after a non-letter and lower-cased after a letter
TitleCase(s) ==
    [k \in 1..Len(s) |-> IF k > 1 /\ IsLetter(s[k - 1]) THEN ToLower(s[k]) ELSE ToUpper(s[k])]

\* s.replace(' ', '')
RECURSIVE DropSpaces(_)
DropSpaces(s) ==
    IF s = <<>> THEN <<>>
    ELSE (IF Head(s) = " " THEN <<>> ELSE <<Head(s)>>) \o DropSpaces(Tail(s))

\* the unpacking  before_at, _ = email.split('@')  raises ValueError
NameRaises(email) == Len(Split(email, <<"@">>)) # 2

TeamName == <<"Hack TUES 10 Team">>

get_name_from_email(email) ==
    LET before_at == Split(email, <<"@">>)[1]
        name == TitleCase(Split(before_at, <<".">>)[1])
    IN  IF DropSpaces(Lower(name)) = <<"h", "a", "c", "k", "t", "u", "e", "s">>
        THEN TeamName
        ELSE name

-----------------------------------------------------------------------------
(* get_google_drive_file_id_from_url, get_google_drive_download_link *)

ID_MARK == <<"i", "d", "=">>

PATH_MARK == <<"f", "i", "l", "e", "/", "d", "/">>

\* get_google_drive_file_id_from_url raises ValueError
UrlRaises(url) == ~Contains(url, ID_MARK) /\ ~Contains(url, PATH_MARK)

get_google_drive_file_id_from_url(url) ==
    IF Contains(url, ID_MARK)
    THEN Split(Split(url, ID_MARK)[2], <<"&">>)[1]
    ELSE Split(Split(url, PATH_MARK)[2], <<"/">>)[1]

get_google_drive_download_link(file_id) ==
    <<"https://drive.google.com/uc?export=download&id=">> \o file_id

-----------------------------------------------------------------------------
(* generate_report_body *)

BUG_REPORT_LIST_FIELDS == <<F_WHERE_BUG, F_DEVICE, F_OS, F_BROWSER>>

BUG_REPORT_FIELDS == <<F_BUG>> \o BUG_REPORT_LIST_FIELDS \o <<F_REPRO, F_BUG_MEDIA>>

ENHANCEMENT_REPORT_FIELDS == <<F_WHERE, F_MEDIA>>

IMAGE_FIELDS == <<F_MEDIA, F_BUG_MEDIA>>

\* the test of line 103
IsFeature(r) == Get(r, F_CATEGORY) = CAT_FEATURE

\* lines 84-94: the three leading lines
HeadLines(r) ==
    (IF Has(r, F_EMAIL)
     THEN <<"**Ot:** ">> \o get_name_from_email(Get(r, F_EMAIL)) \o <<"\n">>
     ELSE <<>>)
    \o (IF Has(r, F_TIMESTAMP) THEN <<"**V:** ">> \o Get(r, F_TIMESTAMP) \o <<"\n">> ELSE <<>>)
    \o (IF Has(r, F_CATEGORY)
        THEN <<"**Za kakvo pishesh?** ">> \o Get(r, F_CATEGORY) \o <<"\n">>
        ELSE <<>>)

HeadIgnored(r) == {f \in {F_EMAIL, F_TIMESTAMP, F_CATEGORY} : Has(r, f)}

\* the value is written as it is, with its surrounding blanks
Bullet_Raw(f, value) == <<"- **", f, ":** _">> \o value \o <<"_", "\n">>

\* line 125: one bullet
Bullet(f, value) == <<"- **", f, ":** _">> \o Strip(value) \o <<"_", "\n">>

RECURSIVE FoldListFields(_, _)
\* lines 121-126, from the i-th list field on: the record with the bullets appended
FoldListFields(r, i) ==
    IF i > Len(BUG_REPORT_LIST_FIELDS) THEN r
    ELSE LET f == BUG_REPORT_LIST_FIELDS[i]
             d == Get(r, F_BUG)
             sep == IF EndsWith(d, <<"\n">>) THEN d ELSE d \o <<"\n">>
         IN  IF Has(r, f)
             THEN FoldListFields(Put(r, F_BUG, sep \o Bullet(f, Get(r, f))), i + 1)
             ELSE FoldListFields(r, i + 1)

\* lines 103-126: the fields the category branch appends to ignore_fields
BranchIgnored(r) ==
    IF IsFeature(r)
    THEN {f \in Range(BUG_REPORT_FIELDS) : Has(r, f)}
    ELSE {f \in Range(ENHANCEMENT_REPORT_FIELDS) \cup Range(BUG_REPORT_LIST_FIELDS) : Has(r, f)}

\* lines 103-126: the record after the category branch
BranchRecord(r) == IF IsFeature(r) THEN r ELSE FoldListFields(r, 1)

\* line 123 raises KeyError: a list field to fold and no bug description
BranchRaises(r) ==
    ~IsFeature(r) /\ ~Has(r, F_BUG) /\ \E k \in 1..Len(BUG_REPORT_LIST_FIELDS) :
        Has(r, BUG_REPORT_LIST_FIELDS[k])

\* line 134: a media field that is present and blank
BlankMedia(r, f) == Has(r, f) /\ Strip(Get(r, f)) = <<>>

RECURSIVE Images(_, _)
\* lines 138-139, from the i-th url on (i is the one-based position, the label is i - 1)
Images(urls, i) ==
    IF i > Len(urls) THEN <<>>
    ELSE <<"![">> \o IntToStr(i - 1) \o <<"](">>
         \o get_google_drive_download_link(get_google_drive_file_id_from_url(urls[i]))
         \o <<")", "\n">> \o Images(urls, i + 1)

\* lines 132-139 for one media field
EmbedMedia(r, f) ==
    IF Has(r, f) /\ ~BlankMedia(r, f)
    THEN Put(r, f, Images(Split(Get(r, f), <<",">>), 1))
    ELSE r

MediaRaises(r) ==
    \E k \in 1..Len(IMAGE_FIELDS) :
        LET f == IMAGE_FIELDS[k]
        IN  /\ Has(r, f)
            /\ ~BlankMedia(r, f)
            /\ \E u \in Range(Split(Get(r, f), <<",">>)) : UrlRaises(u)

\* a blank media field is not marked consumed
MediaIgnored_None(r) == {}

MediaIgnored(r) == {f \in Range(IMAGE_FIELDS) : BlankMedia(r, f)}

MediaRecord(r) == EmbedMedia(EmbedMedia(r, IMAGE_FIELDS[1]), IMAGE_FIELDS[2])

\* ignore_fields when the fallback pass starts
IgnoreFields(r) == HeadIgnored(r) \cup BranchIgnored(r) \cup MediaIgnored(BranchRecord(r))

RECURSIVE Fallback(_, _, _)
\* lines 141-144, from the i-th item of the record on
Fallback(r, ignore_fields, i) ==
    IF i > Len(r) THEN <<>>
    ELSE (IF r[i].k \in ignore_fields
          THEN <<>>
          ELSE <<"# ", r[i].k, "\n">> \o r[i].v \o <<"\n", "\n">>)
         \o Fallback(r, ignore_fields, i + 1)

\* generate_report_body raises (ValueError or KeyError)
BodyRaises(r) ==
    IF Has(r, F_EMAIL) /\ NameRaises(Get(r, F_EMAIL)) THEN TRUE
    ELSE IF ~Has(r, F_CATEGORY) THEN TRUE
    ELSE IF BranchRaises(r) THEN TRUE
    ELSE MediaRaises(BranchRecord(r))

\* main, lines 244-245: the title is rendered first, then the body
RenderRaises(r) == IF TitleRaises(r) THEN TRUE ELSE BodyRaises(r)

\* the record as generate_report_body leaves it
MutatedReport(r) == MediaRecord(BranchRecord(r))

generate_report_body(r) ==
    HeadLines(r) \o Fallback(MutatedReport(r), IgnoreFields(r), 1)

-----------------------------------------------------------------------------
(* Inputs *)

MaxHeadlineLen == 74
MaxIdx == 11
MaxTail == 4
MaxReports == 3

HEADER == <<F_TIMESTAMP, F_EMAIL, F_CATEGORY, F_BUG, F_WHERE_BUG, F_DEVICE, F_OS,
            F_BROWSER, F_REPRO, F_BUG_MEDIA, F_WHAT, F_WHERE, F_MEDIA>>

\* the same columns in another order: sub-fields before the description, media first
ALT_HEADER == <<F_MEDIA, F_BUG_MEDIA, F_DEVICE, F_WHAT, F_WHERE_BUG, F_BUG, F_CATEGORY,
                F_EMAIL, F_TIMESTAMP, F_OS, F_BROWSER, F_REPRO, F_WHERE>>

Pattern == <<"a", "#", "1", ":", " ", "b">>

\* a headline of n characters that contains '#' and ': '
Headline(n, shift) == [k \in 1..n |-> Pattern[((k + shift) % Len(Pattern)) + 1]]

Categories == {CAT_BUG, CAT_FEATURE, CAT_OTHER}

T_STAMP == <<"1", "2", ":", "0", "0">>
E_IVAN == <<"i", "v", "a", "n", ".", "p", "@", "x">>
E_TEAM == <<"h", "a", "c", "k", " ", "T", "U", "E", "S", "@", "x">>
E_NOAT == <<"n", "o", "a", "t">>
U_ID == <<"i", "d", "=", "A", "&", "e">>
U_PATH == <<"f", "i", "l", "e", "/", "d", "/", "X", "/", "v">>
U_BAD == <<"b", "a", "d">>

\* one cell per column, in the order of HEADER
Cells(email, cat, bug, device, bug_media, what, media) ==
    [f \in Range(HEADER) |->
        CASE f = F_TIMESTAMP -> T_STAMP
          [] f = F_EMAIL -> email
          [] f = F_CATEGORY -> cat
          [] f = F_BUG -> bug
          [] f = F_WHERE_BUG -> <<"p">>
          [] f = F_DEVICE -> device
          [] f = F_OS -> <<"o">>
          [] f = F_BROWSER -> <<"r">>
          [] f = F_REPRO -> <<"s">>
          [] f = F_BUG_MEDIA -> bug_media
          [] f = F_WHAT -> what
          [] f = F_WHERE -> <<"k">>
          [] f = F_MEDIA -> media]

\* a sheet row of n cells under the given header
Row(header, cells, n) == [k \in 1..n |-> cells[header[k]]]

RECURSIVE SeqsUpTo(_, _)
\* every sequence of at most n elements of S
SeqsUpTo(S, n) ==
    IF n = 0 THEN {<<>>}
    ELSE SeqsUpTo(S, n - 1)
         \cup {Append(t, c) : t \in {u \in SeqsUpTo(S, n - 1) : Len(u) = n - 1}, c \in S}

Dummy == <<>>

MainIdle ==
    /\ reports = Dummy /\ tracker = Dummy /\ issued_report_indexes = Dummy
    /\ newly_issued_reports = Dummy /\ dismissed_reports = Dummy /\ echoed = None
    /\ issues = Dummy /\ created = Dummy /\ preexisting = 0 /\ prev_done = FALSE
    /\ sheet = Dummy

RenderIdle ==
    /\ report = Dummy /\ report_after = Dummy /\ title = Dummy /\ body = Dummy
    /\ label = "none"

LedgerIdle == github_issues = Dummy /\ result = None

-----------------------------------------------------------------------------
(* generate_report_title on its own *)

InitTitle ==
    /\ \E n \in 0..MaxHeadlineLen, cat \in Categories :
          report = Zip(HEADER, Row(HEADER, Cells(E_IVAN, cat, Headline(n, 0), <<"d">>,
                                                 <<>>, Headline(n, 3), <<>>), Len(HEADER)))
    /\ report_idx \in 0..MaxIdx
    /\ pc = "input"
    /\ report_after = Dummy /\ title = Dummy /\ body = Dummy /\ label = "none"
    /\ MainIdle /\ LedgerIdle

GenTitle ==
    /\ pc = "input"
    /\ ~TitleRaises(report)
    /\ title' = generate_report_title(report, report_idx)
    /\ pc' = "done"
    /\ UNCHANGED <<report, report_after, body, label, report_idx>>
    /\ UNCHANGED mainVars /\ UNCHANGED ledgerVars

NextTitle == GenTitle

SpecTitle == InitTitle /\ [][NextTitle]_vars

-----------------------------------------------------------------------------
(* get_issued_report_indexes on its own *)

TailChars == {"1", "2", "#", ":", " ", "x"}

\* every text of at most n characters over TailChars
Texts(n) == SeqsUpTo(TailChars, n)

T_RANDOM == <<"R", "a", "n", "d", "o", "m", " ", "#", "7", ":", " ", "t">>
T_0 == Prefix \o <<"0", ":", " ", "X">>
T_1 == Prefix \o <<"1", ":", " ", "X">>
T_2 == Prefix \o <<"2", ":", " ", "Y">>
T_BAD == Prefix \o <<"x", ":", " ", "y">>
T_HASH == Prefix \o <<"0", "#", ":", " ", "y">>
T_NOSEP == Prefix \o <<"2">>

Ticket(t) == [title |-> t, body |-> <<>>, labels |-> {"bounty"}]

Listings == {<<>>, <<Ticket(T_RANDOM)>>, <<Ticket(T_0), Ticket(T_2), Ticket(T_RANDOM)>>,
             <<Ticket(T_1), Ticket(T_1)>>}

InitLedger ==
    /\ \E pre \in Listings, t \in Texts(MaxTail), front \in BOOLEAN :
          github_issues = IF front THEN <<Ticket(Prefix \o t)>> \o pre
                                   ELSE pre \o <<Ticket(Prefix \o t)>>
    /\ result = None
    /\ pc = "input"
    /\ report_idx = 0
    /\ MainIdle /\ RenderIdle

DeriveLedger ==
    /\ pc = "input"
    /\ result' = get_issued_report_indexes(github_issues)
    /\ pc' = IF result'.raised THEN "raised" ELSE "done"
    /\ UNCHANGED <<github_issues, report_idx>>
    /\ UNCHANGED mainVars /\ UNCHANGED renderVars

NextLedger == DeriveLedger

SpecLedger == InitLedger /\ [][NextLedger]_vars

-----------------------------------------------------------------------------
(* generate_report_title, generate_report_body and the label, for one record *)

InitBody ==
    /\ \E header \in {HEADER, ALT_HEADER}, n \in 0..Len(HEADER),
          email \in {E_IVAN, E_TEAM, E_NOAT}, cat \in Categories,
          bug \in {<<"b">>, <<"b", "\n">>},
          bug_media \in {<<>>, <<" ">>, U_ID \o <<",">> \o U_PATH, U_BAD},
          media \in {<<" ", "\n">>, U_PATH, U_ID \o <<",">> \o U_BAD} :
          report = Zip(header, Row(header, Cells(email, cat, bug, <<" ", "d", " ">>,
                                                 bug_media, <<"w">>, media), n))
    /\ report_idx \in 0..1
    /\ pc = "input"
    /\ report_after = Dummy /\ title = Dummy /\ body = Dummy /\ label = "none"
    /\ MainIdle /\ LedgerIdle

\* main, lines 244-249, for a record that renders
Render ==
    /\ pc = "input"
    /\ ~RenderRaises(report)
    /\ title' = generate_report_title(report, report_idx)
    /\ body' = generate_report_body(report)
    /\ report_after' = MutatedReport(report)
    /\ label' = category_label(report)
    /\ pc' = "done"
    /\ UNCHANGED <<report, report_idx>>
    /\ UNCHANGED mainVars /\ UNCHANGED ledgerVars

\* main, lines 244-245, for a record on which the rendering raises
RenderRaise ==
    /\ pc = "input"
    /\ RenderRaises(report)
    /\ pc' = "raised"
    /\ UNCHANGED <<report_idx>>
    /\ UNCHANGED renderVars /\ UNCHANGED mainVars /\ UNCHANGED ledgerVars

NextBody == Render \/ RenderRaise

SpecBody == InitBody /\ [][NextBody]_vars

-----------------------------------------------------------------------------
(* main: the publisher, run after run over an unchanged sheet *)

R_BUG == Row(HEADER, Cells(E_IVAN, CAT_BUG, Headline(5, 0), <<" ", "d">>, U_ID, <<>>, <<>>), 10)

R_FEATURE ==
    Row(HEADER, Cells(E_TEAM, CAT_FEATURE, <<>>, <<>>, <<>>, Headline(TitleLimit + 1, 3),
                      U_PATH \o <<",">> \o U_ID), Len(HEADER))

R_BADURL == Row(HEADER, Cells(E_IVAN, CAT_BUG, <<"b">>, <<"d">>, U_BAD, <<>>, <<>>), 10)

R_SHORT == Row(HEADER, Cells(E_IVAN, CAT_BUG, <<"b">>, <<"d">>, <<>>, <<>>, <<>>), 3)

SampleRows == {R_BUG, R_FEATURE, R_BADURL, R_SHORT}

\* the tracker before the first run
InitialListings ==
    {<<>>, <<Ticket(T_1)>>, <<Ticket(T_RANDOM), Ticket(T_1)>>, <<Ticket(T_BAD)>>,
     <<Ticket(T_HASH)>>, <<Ticket(T_0), Ticket(T_2), Ticket(T_RANDOM)>>,
     <<Ticket(T_1), Ticket(T_BAD)>>}

\* get_reports_as_dicts
get_reports_as_dicts(sh) == [k \in 1..Len(sh.rows) |-> Zip(sh.header, sh.rows[k])]

\* the index is compared as if titles numbered the records from one
IsIssued_OffByOne(idx, indexes) == (idx + 1) \in Range(indexes)

\* the test  report_idx in issued_report_indexes  of line 241
IsIssued(idx, indexes) == idx \in Range(indexes)

\* the exception is caught and the loop goes on with the next record
Swallow(idx) == [pc |-> "loop", report_idx |-> idx + 1]

\* an exception raised by the rendering is caught nowhere: it leaves main
Propagate(idx) == [pc |-> "raised_render", report_idx |-> idx]

\* the arguments of create_github_issue for the record at idx
NewTicket(r, idx) ==
    [title |-> generate_report_title(r, idx),
     body |-> generate_report_body(r),
     labels |-> {"bounty", category_label(r)}]

Stopped == {"idle", "done", "raised_ledger", "raised_render", "raised_create"}

Init ==
    /\ sheet \in {[header |-> HEADER, rows |-> rs] : rs \in SeqsUpTo(SampleRows, MaxReports)}
    /\ tracker \in InitialListings
    /\ preexisting = Len(tracker)
    /\ pc = "idle"
    /\ reports = Dummy /\ issues = Dummy /\ issued_report_indexes = Dummy
    /\ newly_issued_reports = Dummy /\ dismissed_reports = Dummy /\ echoed = None
    /\ created = <<>> /\ prev_done = FALSE
    /\ report_idx = 0
    /\ RenderIdle /\ LedgerIdle

\* main, lines 230-239, when the ledger is derived
StartRun ==
    /\ pc \in Stopped
    /\ ~get_issued_report_indexes(tracker).raised
    /\ reports' = get_reports_as_dicts(sheet)
    /\ issues' = tracker
    /\ issued_report_indexes' = get_issued_report_indexes(tracker).value
    /\ newly_issued_reports' = <<>>
    /\ dismissed_reports' = <<>>
    /\ echoed' = None
    /\ report_idx' = 0
    /\ prev_done' = (pc = "done")
    /\ pc' = "loop"
    /\ UNCHANGED <<tracker, created, preexisting, sheet>>
    /\ UNCHANGED renderVars /\ UNCHANGED ledgerVars

\* main, lines 230-236, when get_issued_report_indexes raises
LedgerRaise ==
    /\ pc \in Stopped
    /\ get_issued_report_indexes(tracker).raised
    /\ reports' = get_reports_as_dicts(sheet)
    /\ issues' = tracker
    /\ issued_report_indexes' = Dummy
    /\ newly_issued_reports' = Dummy
    /\ dismissed_reports' = Dummy
    /\ echoed' = None
    /\ report_idx' = 0
    /\ prev_done' = (pc = "done")
    /\ pc' = "raised_ledger"
    /\ UNCHANGED <<tracker, created, preexisting, sheet>>
    /\ UNCHANGED renderVars /\ UNCHANGED ledgerVars

\* lines 241-243
Skip ==
    /\ pc = "loop"
    /\ report_idx < Len(reports)
    /\ IsIssued(report_idx, issued_report_indexes)
    /\ dismissed_reports' = Append(dismissed_reports, report_idx)
    /\ report_idx' = report_idx + 1
    /\ UNCHANGED <<reports, tracker, pc, issued_report_indexes, newly_issued_reports, echoed,
                   issues, created, preexisting, prev_done, sheet>>
    /\ UNCHANGED renderVars /\ UNCHANGED ledgerVars

\* lines 244-252
Publish ==
    /\ pc = "loop"
    /\ report_idx < Len(reports)
    /\ ~IsIssued(report_idx, issued_report_indexes)
    /\ ~RenderRaises(reports[report_idx + 1])
    /\ tracker' = Append(tracker, NewTicket(reports[report_idx + 1], report_idx))
    /\ reports' = [reports EXCEPT ![report_idx + 1] = MutatedReport(@)]
    /\ newly_issued_reports' = Append(newly_issued_reports, report_idx)
    /\ created' = Append(created, report_idx)
    /\ report_idx' = report_idx + 1
    /\ UNCHANGED <<pc, issued_report_indexes, dismissed_reports, echoed, issues,
                   preexisting, prev_done, sheet>>
    /\ UNCHANGED renderVars /\ UNCHANGED ledgerVars

\* lines 244-245 raise; the record keeps whatever the rendering wrote before raising,
\* which nothing reads afterwards
RenderFail ==
    /\ pc = "loop"
    /\ report_idx < Len(reports)
    /\ ~IsIssued(report_idx, issued_report_indexes)
    /\ RenderRaises(reports[report_idx + 1])
    /\ pc' = Propagate(report_idx).pc
    /\ report_idx' = Propagate(report_idx).report_idx
    /\ UNCHANGED <<reports, tracker, issued_report_indexes, newly_issued_reports,
                   dismissed_reports, echoed, issues, created, preexisting, prev_done, sheet>>
    /\ UNCHANGED renderVars /\ UNCHANGED ledgerVars

\* line 250 or 252 raises and the tracker created nothing (a refused or failed request)
CreateFails ==
    /\ pc = "loop"
    /\ report_idx < Len(reports)
    /\ ~IsIssued(report_idx, issued_report_indexes)
    /\ ~RenderRaises(reports[report_idx + 1])
    /\ reports' = [reports EXCEPT ![report_idx + 1] = MutatedReport(@)]
    /\ pc' = "raised_create"
    /\ UNCHANGED <<tracker, report_idx, issued_report_indexes, newly_issued_reports,
                   dismissed_reports, echoed, issues, created, preexisting, prev_done, sheet>>
    /\ UNCHANGED renderVars /\ UNCHANGED ledgerVars

\* line 250 raises after the tracker created the ticket (the response is lost)
CreateLost ==
    /\ pc = "loop"
    /\ report_idx < Len(reports)
    /\ ~IsIssued(report_idx, issued_report_indexes)
    /\ ~RenderRaises(reports[report_idx + 1])
    /\ tracker' = Append(tracker, NewTicket(reports[report_idx + 1], report_idx))
    /\ reports' = [reports EXCEPT ![report_idx + 1] = MutatedReport(@)]
    /\ created' = Append(created, report_idx)
    /\ pc' = "raised_create"
    /\ UNCHANGED <<report_idx, issued_report_indexes, newly_issued_reports,
                   dismissed_reports, echoed, issues, preexisting, prev_done, sheet>>
    /\ UNCHANGED renderVars /\ UNCHANGED ledgerVars

\* lines 254-255
Finish ==
    /\ pc = "loop"
    /\ report_idx = Len(reports)
    /\ echoed' = [newly |-> Len(newly_issued_reports), existing |-> Len(dismissed_reports)]
    /\ pc' = "done"
    /\ UNCHANGED <<reports, tracker, report_idx, issued_report_indexes, newly_issued_reports,
                   dismissed_reports, issues, created, preexisting, prev_done, sheet>>
    /\ UNCHANGED renderVars /\ UNCHANGED ledgerVars

Next ==
    \/ StartRun \/ LedgerRaise \/ Skip \/ Publish \/ RenderFail \/ CreateFails
    \/ CreateLost \/ Finish

Spec == Init /\ [][Next]_vars

-----------------------------------------------------------------------------
(* Properties of the rendering *)

\* number of places where sub occurs in s
Count(s, sub) == Cardinality({i \in 1..Len(s) : MatchAt(s, sub, i)})

\* the decimal numeral d denotes n, without sign, blanks or leading zeros
Denotes(d, n) ==
    /\ d # <<>>
    /\ \A k \in 1..Len(d) : d[k] \in Digits
    /\ Len(d) = 1 \/ d[1] # "0"
    /\ DigitsVal(d) = n

\* t is `Bounty #<n>: <h>`
IsTitle(t, n, h) ==
    \E m \in 1..(Len(t) - Len(Prefix)) :
        /\ StartsWith(t, Prefix)
        /\ MatchAt(t, <<":", " ">>, Len(Prefix) + m + 1)
        /\ Denotes(SubSeq(t, Len(Prefix) + 1, Len(Prefix) + m), n)
        /\ SubSeq(t, Len(Prefix) + m + 3, Len(t)) = h

\* the headline the title was made from
TitleSource == Get(report, TitleField(report))

\* C6: generate_report_title returns `Bounty #<i>: <h>` with h unchanged when h has at
\* most 69 characters, and with the first 69 characters of h followed by `...` when h
\* has 70 or more; the headline part is never longer than 72 characters.
ThmC6 ==
    pc = "done" =>
        /\ Len(TitleSource) <= 69 => IsTitle(title, report_idx, TitleSource)
        /\ Len(TitleSource) >= 70 =>
              IsTitle(title, report_idx, SubSeq(TitleSource, 1, 69) \o <<".", ".", ".">>)
        /\ \E n \in 0..Min(72, Len(title)) :
              IsTitle(title, report_idx, SubSeq(title, Len(title) - n + 1, Len(title)))

WitC6 ==
    /\ pc = "done"
    /\ Len(TitleSource) = 70
    /\ report_idx >= 10
    /\ EndsWith(title, <<".", ".", ".">>)
    /\ Len(title) = Len(Prefix) + 2 + 2 + 72

\* the text of t after its first `: `
AfterSeparator(t) == SubSeq(t, FindFrom(t, <<":", " ">>, 1) + 2, Len(t))

\* C5 (as claimed): the headline is the feature field for the feature/suggestion
\* category and the bug-description field for every other category value, so the title
\* uses the feature headline exactly when the label is 'enhancement'.
CexC5 ==
    pc = "done" /\ Has(report, F_BUG) /\ Has(report, F_WHAT) =>
        /\ AfterSeparator(title) =
              (IF Get(report, F_CATEGORY) = CAT_FEATURE
               THEN Get(report, F_WHAT) ELSE Get(report, F_BUG))
        /\ (AfterSeparator(title) = Get(report, F_WHAT)) <=> (label = "enhancement")

RECURSIVE SectionsFrom(_, _)
\* the field names of the `# <field>` sections of b, from position i on
SectionsFrom(b, i) ==
    IF i >= Len(b) THEN <<>>
    ELSE (IF b[i] = "# " THEN <<b[i + 1]>> ELSE <<>>) \o SectionsFrom(b, i + 1)

Sections(b) == SectionsFrom(b, 1)

\* position of the first occurrence of sub in s, 0 if there is none
Pos(s, sub) == FindFrom(s, sub, 1)

ListFieldsPresent == {k \in 1..4 : Has(report, BUG_REPORT_LIST_FIELDS[k])}

\* the bullet of field f: `- **<f>:** _<value>_`, the value stripped or as it is
BulletOf(f, stripped) ==
    <<"- **", f, ":** _">>
    \o (IF stripped THEN Strip(Get(report, f)) ELSE Get(report, f)) \o <<"_", "\n">>

\* the defect half of C7
DefectFolded(stripped) ==
    LET old == Get(report, F_BUG)
        new == Get(report_after, F_BUG)
        sep == IF ListFieldsPresent # {} /\ ~EndsWith(old, <<"\n">>) THEN 1 ELSE 0
        bullet(f) == BulletOf(f, stripped)
        LenOf(k) == IF k \in ListFieldsPresent
                    THEN Len(bullet(BUG_REPORT_LIST_FIELDS[k])) ELSE 0
    IN  /\ StartsWith(new, old)
        /\ Len(new) = Len(old) + sep + LenOf(1) + LenOf(2) + LenOf(3) + LenOf(4)
        /\ \A k \in 1..4 :
              LET f == BUG_REPORT_LIST_FIELDS[k]
              IN  IF k \in ListFieldsPresent
                  THEN /\ Count(new, bullet(f)) = 1
                       /\ Count(new, <<"- **", f>>) = 1
                       /\ Pos(new, bullet(f)) > Len(old)
                       /\ f \notin Range(Sections(body))
                  ELSE Count(new, <<"- **", f>>) = 0
        /\ \A k1, k2 \in ListFieldsPresent :
              k1 < k2 => Pos(new, <<"- **", BUG_REPORT_LIST_FIELDS[k1]>>)
                            < Pos(new, <<"- **", BUG_REPORT_LIST_FIELDS[k2]>>)
        /\ Count(body, <<"# ", F_BUG, "\n">> \o new \o <<"\n", "\n">>) = 1

\* the feature half of C7
FeatureDropsBugFields ==
    /\ Count(body, <<"- **">>) = 0
    /\ \A f \in Range(BUG_REPORT_FIELDS) : \A i \in 1..Len(body) : body[i] # f
    /\ \A f \in Range(BUG_REPORT_FIELDS) : Has(report, f) => Get(report_after, f) = Get(report, f)
                                               \/ f = F_BUG_MEDIA

\* C7 (amended): for a defect-category record each present environment sub-field is
\* appended to the bug description exactly once as `- **<field>:** _<value>_`, the value
\* with its leading and trailing whitespace stripped, in the fixed order, after the
\* original text, and has no section of its own; for a feature/suggestion record no
\* bullet is produced and no bug field appears in the body.
ThmC7 ==
    pc = "done" =>
        /\ Get(report, F_CATEGORY) = CAT_BUG /\ Has(report, F_BUG) => DefectFolded(TRUE)
        /\ Get(report, F_CATEGORY) = CAT_FEATURE => FeatureDropsBugFields

\* C7 (as claimed): the same with the bullet holding the field's value as it is.
CexC7 ==
    pc = "done" =>
        /\ Get(report, F_CATEGORY) = CAT_BUG /\ Has(report, F_BUG) => DefectFolded(FALSE)
        /\ Get(report, F_CATEGORY) = CAT_FEATURE => FeatureDropsBugFields

WitC7 ==
    /\ pc = "done"
    /\ Get(report, F_CATEGORY) = CAT_BUG
    /\ ListFieldsPresent = 1..4
    /\ ~EndsWith(Get(report, F_BUG), <<"\n">>)
    /\ Get(report, F_DEVICE) # Strip(Get(report, F_DEVICE))
    /\ Count(body, BulletOf(F_DEVICE, TRUE)) = 1

\* the fields some pass marks consumed
Consumed ==
    {f \in {F_EMAIL, F_TIMESTAMP, F_CATEGORY} : Has(report, f)}
    \cup (IF Get(report, F_CATEGORY) = CAT_FEATURE
          THEN {F_BUG, F_WHERE_BUG, F_DEVICE, F_OS, F_BROWSER, F_REPRO, F_BUG_MEDIA}
          ELSE {F_WHERE, F_MEDIA, F_WHERE_BUG, F_DEVICE, F_OS, F_BROWSER})
    \cup {f \in {F_MEDIA, F_BUG_MEDIA} : Has(report, f) /\ Strip(Get(report, f)) = <<>>}

RECURSIVE Without(_, _)
\* the sequence s without its elements that are in S
Without(s, S) ==
    IF s = <<>> THEN <<>>
    ELSE (IF Head(s) \in S THEN <<>> ELSE <<Head(s)>>) \o Without(Tail(s), S)

SectionStarts == {i \in 1..Len(body) : body[i] = "# "}

\* where the section that starts at p ends
SectionEnd(p) ==
    IF \E q \in SectionStarts : q > p
    THEN (CHOOSE q \in SectionStarts : q > p /\ \A q2 \in SectionStarts : q2 > p => q <= q2) - 1
    ELSE Len(body)

\* what the section of field f must hold
SectionHolds(f, content) ==
    IF f = F_BUG /\ ListFieldsPresent # {}
    THEN /\ StartsWith(content, Get(report, F_BUG))
         /\ Count(content, <<"- **">>) = Cardinality(ListFieldsPresent)
    ELSE IF f \in {F_MEDIA, F_BUG_MEDIA}
    THEN /\ Count(content, <<"![">>) = Count(Get(report, f), <<",">>) + 1
         /\ Count(content, <<"\n">>) = Count(Get(report, f), <<",">>) + 1
         /\ content[1] = "![" /\ content[Len(content)] = "\n"
    ELSE content = Get(report, f)

\* the three leading lines, each only if its field is present, and nothing else before
\* the first section
HeadIs ==
    LET first == IF SectionStarts = {} THEN Len(body) + 1
                 ELSE CHOOSE p \in SectionStarts : \A q \in SectionStarts : p <= q
        head == SubSeq(body, 1, first - 1)
        from == <<"**Ot:** ">>
        at == <<"**V:** ">> \o (IF Has(report, F_TIMESTAMP) THEN Get(report, F_TIMESTAMP)
                                                          ELSE <<>>) \o <<"\n">>
        cat == <<"**Za kakvo pishesh?** ">> \o Get(report, F_CATEGORY) \o <<"\n">>
    IN  /\ Count(head, from) = (IF Has(report, F_EMAIL) THEN 1 ELSE 0)
        /\ Count(head, at) = (IF Has(report, F_TIMESTAMP) THEN 1 ELSE 0)
        /\ Count(head, <<"**V:** ">>) = (IF Has(report, F_TIMESTAMP) THEN 1 ELSE 0)
        /\ Has(report, F_EMAIL) => head[1] = "**Ot:** "
        /\ EndsWith(head, cat)
        /\ Has(report, F_TIMESTAMP) => Pos(head, at) + Len(at) = Len(head) - Len(cat) + 1
        /\ ~Has(report, F_TIMESTAMP) /\ ~Has(report, F_EMAIL) => head = cat
        /\ Has(report, F_EMAIL) =>
              LET stop == Len(head) - Len(cat)
                          - (IF Has(report, F_TIMESTAMP) THEN Len(at) ELSE 0)
              IN  /\ head[stop] = "\n"
                  /\ Count(SubSeq(head, 1, stop), <<"\n">>) = 1

\* C10: the body is the attribution, timestamp and category lines (each only if its field
\* is present), then one `# <field>` section for every field no pass consumed and for no
\* consumed field, in the record's column order; the restructured bug description and a
\* rewritten media field stand at their column positions, and a blank media field has
\* no section.
ThmC10 ==
    pc = "done" =>
        /\ HeadIs
        /\ Sections(body) = Without(Keys(report), Consumed)
        /\ \A p \in SectionStarts :
              /\ body[p + 2] = "\n"
              /\ SubSeq(body, SectionEnd(p) - 1, SectionEnd(p)) = <<"\n", "\n">>
              /\ SectionHolds(body[p + 1], SubSeq(body, p + 3, SectionEnd(p) - 2))

WitC10 ==
    /\ pc = "done"
    /\ Keys(report) = ALT_HEADER
    /\ Get(report, F_CATEGORY) = CAT_BUG
    /\ Get(report, F_MEDIA) = <<" ", "\n">>
    /\ Count(Get(report, F_BUG_MEDIA), <<",">>) = 1
    /\ Sections(body) = <<F_BUG_MEDIA, F_WHAT, F_BUG, F_REPRO>>

-----------------------------------------------------------------------------
(* Properties of the ledger *)

\* the texts that follow `Bounty #` in t, up to any position
Stems(t) == {SubSeq(t, Len(Prefix) + 1, Len(Prefix) + m) : m \in 0..(Len(t) - Len(Prefix))}

\* t starts with `Bounty #` and s is what stands between that '#' and the first
\* following '#' or ': ', or the end of the title
Delimited(t, s) ==
    /\ StartsWith(t, Prefix \o s)
    /\ LET rest == SubSeq(t, Len(Prefix) + Len(s) + 1, Len(t))
       IN  rest = <<>> \/ StartsWith(rest, <<"#">>) \/ StartsWith(rest, <<":", " ">>)
    /\ ~Contains(s, <<"#">>) /\ ~Contains(s, <<":", " ">>)

\* t starts with `Bounty #` and s is what stands between that '#' and the following ': '
DelimitedByColon(t, s) ==
    /\ StartsWith(t, Prefix \o s \o <<":", " ">>)
    /\ ~Contains(s, <<":", " ">>)

Titles(tickets) == {tickets[k].title : k \in 1..Len(tickets)}

\* the index tokens of the tickets, read up to the first '#' or ': ' or the end
Tokens(tickets) ==
    {s \in UNION {Stems(t) : t \in {u \in Titles(tickets) : StartsWith(u, Prefix)}} :
        \E t \in Titles(tickets) : Delimited(t, s)}

\* the index tokens of the tickets, read up to the following ': '
TokensByColon(tickets) ==
    {s \in UNION {Stems(t) : t \in {u \in Titles(tickets) : StartsWith(u, Prefix)}} :
        \E t \in Titles(tickets) : DelimitedByColon(t, s)}

\* C4 (amended): get_issued_report_indexes yields exactly the integers n for which some
\* ticket title starts with `Bounty #` and has n between that '#' and the first following
\* '#' or ': ', or the end of the title; it raises exactly when such a token is no
\* integer; titles that do not start with `Bounty #` contribute nothing and raise nothing.
ThmC4 ==
    pc # "input" =>
        LET tokens == Tokens(github_issues)
        IN  /\ result.raised <=> \E s \in tokens : ~IntParses(s)
            /\ ~result.raised =>
                  /\ Range(result.value) = {IntOf(s) : s \in tokens}
                  /\ Len(result.value) =
                        Cardinality({k \in 1..Len(github_issues) :
                                        StartsWith(github_issues[k].title, Prefix)})

\* C4 (as claimed): the integers are those between the '#' and the following ': '.
CexC4 ==
    pc = "done" =>
        Range(result.value) =
            {IntOf(s) : s \in {u \in TokensByColon(github_issues) : IntParses(u)}}

WitC4 ==
    /\ pc = "done"
    /\ Len(github_issues) = 4
    /\ github_issues[2].title = T_2
    /\ github_issues[3].title = T_RANDOM
    /\ github_issues[4].title = Prefix \o <<"1", ":", " ", "#">>
    /\ result.value = <<0, 2, 1>>

-----------------------------------------------------------------------------
(* Properties of the publisher *)

\* the record at index i, as the sheet holds it
Fetched(i) == Zip(sheet.header, sheet.rows[i + 1])

Indexes == 0..(Len(sheet.rows) - 1)

\* the PublishedSet of the current run
PublishedSet == Range(issued_report_indexes)

Unpublished == {i \in Indexes : i \notin PublishedSet}

\* the tickets created since the current run fetched the listing
NewTickets == SubSeq(tracker, Len(issues) + 1, Len(tracker))

\* t is a title `Bounty #<i>: ...`
TitleIndexIs(t, i) ==
    \E m \in 1..(Len(t) - Len(Prefix)) :
        /\ StartsWith(t, Prefix)
        /\ MatchAt(t, <<":", " ">>, Len(Prefix) + m + 1)
        /\ Denotes(SubSeq(t, Len(Prefix) + 1, Len(Prefix) + m), i)

\* the tickets s are one ticket for each index of S, in ascending order
OneEachAscending(s, S) ==
    /\ Len(s) = Cardinality(S)
    /\ \A i \in S : TitleIndexIs(s[Cardinality({u \in S : u <= i})].title, i)

InRun == pc \in {"loop", "done", "raised_render", "raised_create"}

\* C3: in a run that completes, a ticket is submitted for exactly the record indexes that
\* are not in the PublishedSet, in ascending order, one each; the newly-issued count is
\* their number, the already-existing count is the number of record indexes in the
\* PublishedSet, and the two counts sum to the number of records.
ThmC3 ==
    pc = "done" =>
        /\ SubSeq(tracker, 1, Len(issues)) = issues
        /\ OneEachAscending(NewTickets, Unpublished)
        /\ echoed.newly = Cardinality(Unpublished)
        /\ echoed.existing = Cardinality(Indexes \cap PublishedSet)
        /\ echoed.newly + echoed.existing = Len(sheet.rows)

WitC3 ==
    /\ pc = "done"
    /\ Len(sheet.rows) = 3
    /\ issues = <<Ticket(T_1)>>
    /\ Len(tracker) = 3
    /\ TitleIndexIs(tracker[2].title, 0) /\ TitleIndexIs(tracker[3].title, 2)
    /\ echoed = [newly |-> 2, existing |-> 1]

\* C1: a run that completes right after a completed run over the same records, with the
\* listing holding every ticket made so far, creates no ticket: newly-issued is 0 and
\* already-existing is the number of records.
ThmC1 ==
    pc = "done" /\ prev_done =>
        /\ tracker = issues
        /\ echoed.newly = 0
        /\ echoed.existing = Len(sheet.rows)

WitC1 ==
    /\ pc = "done" /\ prev_done
    /\ Len(sheet.rows) = 3
    /\ Len(created) = 3
    /\ preexisting = 0
    /\ \E i \in Indexes : Len(Get(Fetched(i), TitleField(Fetched(i)))) > TitleLimit
    /\ echoed = [newly |-> 0, existing |-> 3]

\* the indexes the tickets s stand for, as the ledger reads them
IndexesOf(s) == {IntOf(x) : x \in {y \in Tokens(s) : IntParses(y)}}

\* C2: over any sequence of runs, aborted anywhere, each record index has at most one
\* ticket created for it, none is created for an index that had a ticket before the
\* first run, and a run skips exactly the indexes that have a ticket when it starts and
\* submits only indexes that have none.
ThmC2 ==
    LET before == IndexesOf(SubSeq(tracker, 1, preexisting))
        listed == IndexesOf(issues)
    IN  /\ \A j1, j2 \in 1..Len(created) : created[j1] = created[j2] => j1 = j2
        /\ \A j \in 1..Len(created) : created[j] \notin before
        /\ InRun =>
              /\ \A i \in Range(dismissed_reports) : i \in listed
              /\ \A i \in Range(newly_issued_reports) : i \notin listed
              /\ \A i \in 0..(report_idx - 1) :
                    i \in Range(dismissed_reports) \/ i \in Range(newly_issued_reports)
              /\ \A j \in 1..Len(NewTickets) : \E i \in Indexes \ listed :
                    TitleIndexIs(NewTickets[j].title, i)

WitC2 ==
    /\ pc = "done" /\ ~prev_done
    /\ created = <<0, 1, 2>>
    /\ newly_issued_reports = <<1, 2>>
    /\ dismissed_reports = <<0>>
    /\ Len(tracker) = 3

\* C8 (amended): if a listed title starts with `Bounty #` and the text between that '#'
\* and the first following '#' or ': ' (or the end of the title) is no integer, the run
\* aborts while the ledger is built: no record is rendered, no ticket is created and no
\* counts are reported.
ThmC8 ==
    pc # "idle" /\ (\E s \in Tokens(issues) : ~IntParses(s)) =>
        /\ pc = "raised_ledger"
        /\ tracker = issues
        /\ reports = get_reports_as_dicts(sheet)
        /\ echoed = None

\* C8 (as claimed): the same for the text between the '#' and the following ': '.
CexC8 ==
    pc # "idle" /\ (\E s \in TokensByColon(issues) : ~IntParses(s)) =>
        /\ pc = "raised_ledger"
        /\ tracker = issues
        /\ reports = get_reports_as_dicts(sheet)
        /\ echoed = None

WitC8 ==
    /\ pc = "raised_ledger"
    /\ issues = <<Ticket(T_1), Ticket(T_BAD)>>
    /\ Len(sheet.rows) = 3
    /\ tracker = issues

\* the unpublished indexes whose rendering raises
Failing == {i \in Unpublished : RenderRaises(Fetched(i))}

FirstFailing == CHOOSE k \in Failing : \A i \in Failing : k <= i

\* C9: when the first unpublished record whose rendering fails is at index k, the run
\* never gets past k and creates no ticket for k or a later record; when it aborts on the
\* rendering it does so at k, with one ticket in place for each unpublished index below
\* k; and every ticket created holds the complete body of a record that renders.
ThmC9 ==
    /\ InRun /\ Failing # {} =>
          /\ pc # "done"
          /\ report_idx <= FirstFailing
          /\ \A j \in 1..Len(NewTickets) : \E i \in Unpublished :
                i < FirstFailing /\ TitleIndexIs(NewTickets[j].title, i)
    /\ pc = "raised_render" =>
          /\ Failing # {}
          /\ report_idx = FirstFailing
          /\ SubSeq(tracker, 1, Len(issues)) = issues
          /\ OneEachAscending(NewTickets, {i \in Unpublished : i < FirstFailing})
    /\ \A j \in (preexisting + 1)..Len(tracker) : \E i \in Indexes :
          /\ TitleIndexIs(tracker[j].title, i)
          /\ ~RenderRaises(Fetched(i))
          /\ tracker[j].body = generate_report_body(Fetched(i))

WitC9 ==
    /\ pc = "raised_render"
    /\ sheet.rows = <<R_BUG, R_SHORT, R_BADURL>>
    /\ issues = <<Ticket(T_1)>>
    /\ report_idx = 2
    /\ Len(tracker) = 2

====
